---- MODULE Spec2Model ----
(***************************************************************************)
(* Word-level diff / merge engine of pmatch's workspace:                   *)
(*   lib/diff.ts                  tokenize, lcsTable, diffWords            *)
(*   inline-diff-resolver.tsx     groupOps, InlineDiffResolver             *)
(*   workspace-sidebar.tsx        Contact (field reconciliation)           *)
(*                                                                         *)
(* A string is a sequence of one-character strings.  Indices into the      *)
(* token arrays a, b and into the score table dp are 0-based as in the     *)
(* source (a[i] of the source is a[i + 1] here); indices into segs and ops *)
(* are 1-based (op index idx of the source is idx + 1 here).               *)
(***************************************************************************)
EXTENDS Integers, Sequences, FiniteSets, TLC

\* ------------------------------------------------------------------ bounds
\* Longest before / after string given to a stand-alone resolver.
MaxLen == 5
\* Number of sample texts a proposal or the user's typing can put in the
\* message body.
NumTexts == 2
\* Number of words of the long message bodies.
NumWords == 3
\* Number of pdf files dropped on a DataDrop in one session.
MaxFiles == 3
\* Longest list of files dropped at once.
MaxDrop == 2

\* ------------------------------------------------------------- characters
Whitespace == {" "}

\* The before / after strings given to a stand-alone resolver: words a, aa,
\* aaa, ... and runs of blanks.
Chars == {"a", " "}
Strings == UNION {[1..n -> Chars] : n \in 0..MaxLen}

SampleTexts ==
  << <<"a", " ", "b">>,
     <<"b", " ", "a">>,
     <<>>,
     <<"a">>,
     <<"b", " ", "b">>,
     <<"a", "b">> >>

\* Texts a proposal or the user's typing can put in each field: one-word
\* addresses, short subjects, and the sample texts for the body.
FieldTexts ==
  [email   |-> {<<"a">>, <<"b">>},
   subject |-> {<<"a">>, <<"a", " ", "b">>},
   text    |-> {SampleTexts[k] : k \in 1..NumTexts}]

RECURSIVE LongText(_, _)
\* A message body of n words, each the word w, one blank between words.
LongText(w, n) ==
  IF n = 0 THEN <<>>
  ELSE IF n = 1 THEN <<w>>
  ELSE <<w, " ">> \o LongText(w, n - 1)

\* Values for a session on long bodies: every word of the body differs
\* between the two texts, so a proposal offers NumWords change-ops.
LongTexts ==
  [email   |-> {<<"a">>, <<"b">>},
   subject |-> {<<"a">>},
   text    |-> {LongText("a", NumWords), LongText("b", NumWords)}]

Max(x, y) == IF x >= y THEN x ELSE y

RECURSIVE join(_)
\* Array.prototype.join(''): concatenation of a sequence of strings.
join(parts) ==
  IF parts = <<>> THEN <<>> ELSE Head(parts) \o join(Tail(parts))

\* ------------------------------------------------------------ lib/diff.ts
isSpace(c) == c \in Whitespace

\* Mutant of matchLength: the pattern (\s|[^\s]+), a whitespace match is one
\* character long.
matchLengthOneSpace(input) ==
  IF isSpace(input[1]) THEN 1
  ELSE CHOOSE k \in 1..Len(input) :
         /\ \A p \in 1..k : ~isSpace(input[p])
         /\ k = Len(input) \/ isSpace(input[k + 1])

\* Length of the greedy match of \s+ or [^\s]+ at the start of input.
matchLength(input) ==
  CHOOSE k \in 1..Len(input) :
    /\ \A p \in 1..k : isSpace(input[p]) = isSpace(input[1])
    /\ k = Len(input) \/ isSpace(input[k + 1]) # isSpace(input[1])

RECURSIVE tokenize(_)
tokenize(input) ==
  IF input = <<>> THEN <<>>
  ELSE LET k == matchLength(input)
       IN  <<SubSeq(input, 1, k)>> \o tokenize(SubSeq(input, k + 1, Len(input)))

\* Mutant of lcsTable: Math.min where the source has Math.max.
lcsTableMin(a, b) ==
  LET m == Len(a)
      n == Len(b)
      dp[i \in 0..m, j \in 0..n] ==
        IF i = m \/ j = n THEN 0
        ELSE IF a[i + 1] = b[j + 1] THEN dp[i + 1, j + 1] + 1
        ELSE IF dp[i + 1, j] <= dp[i, j + 1] THEN dp[i + 1, j] ELSE dp[i, j + 1]
  IN  dp

lcsTable(a, b) ==
  LET m == Len(a)
      n == Len(b)
      dp[i \in 0..m, j \in 0..n] ==
        IF i = m \/ j = n THEN 0
        ELSE IF a[i + 1] = b[j + 1] THEN dp[i + 1, j + 1] + 1
        ELSE Max(dp[i + 1, j], dp[i, j + 1])
  IN  dp

\* Mutant of push: every non-empty value starts a new segment.
pushNoMerge(segments, type, value) ==
  IF value = <<>> THEN segments
  ELSE Append(segments, [type |-> type, value |-> value])

\* Mutant of push: last.value = value where the source has last.value += value.
pushOverwrite(segments, type, value) ==
  IF value = <<>> THEN segments
  ELSE IF segments # <<>> /\ segments[Len(segments)].type = type
       THEN [segments EXCEPT ![Len(segments)].value = value]
       ELSE Append(segments, [type |-> type, value |-> value])

push(segments, type, value) ==
  IF value = <<>> THEN segments
  ELSE IF segments # <<>> /\ segments[Len(segments)].type = type
       THEN [segments EXCEPT ![Len(segments)].value = @ \o value]
       ELSE Append(segments, [type |-> type, value |-> value])

\* One iteration of a loop of diffWords: the push, and (history only) the
\* position and the branch taken.
emit(st, type, value, i, j) ==
  [segments |-> push(st.segments, type, value),
   steps    |-> Append(st.steps, [i |-> i, j |-> j, type |-> type])]

RECURSIVE walkPreferAdded(_, _, _, _, _, _)
\* Mutant of walk: dp[i + 1][j] > dp[i][j + 1] where the source has >=.
walkPreferAdded(a, b, dp, i, j, st) ==
  IF i < Len(a) /\ j < Len(b) THEN
    IF a[i + 1] = b[j + 1] THEN
      walkPreferAdded(a, b, dp, i + 1, j + 1, emit(st, "equal", a[i + 1], i, j))
    ELSE IF dp[i + 1, j] > dp[i, j + 1] THEN
      walkPreferAdded(a, b, dp, i + 1, j, emit(st, "removed", a[i + 1], i, j))
    ELSE
      walkPreferAdded(a, b, dp, i, j + 1, emit(st, "added", b[j + 1], i, j))
  ELSE IF i < Len(a) THEN
    walkPreferAdded(a, b, dp, i + 1, j, emit(st, "removed", a[i + 1], i, j))
  ELSE IF j < Len(b) THEN
    walkPreferAdded(a, b, dp, i, j + 1, emit(st, "added", b[j + 1], i, j))
  ELSE st

RECURSIVE walkStopsEarly(_, _, _, _, _, _)
\* Mutant of walk: the first loop runs while i < a.length - 1, so the last
\* token of a is always left to the second loop.
walkStopsEarly(a, b, dp, i, j, st) ==
  IF i < Len(a) - 1 /\ j < Len(b) THEN
    IF a[i + 1] = b[j + 1] THEN
      walkStopsEarly(a, b, dp, i + 1, j + 1, emit(st, "equal", a[i + 1], i, j))
    ELSE IF dp[i + 1, j] >= dp[i, j + 1] THEN
      walkStopsEarly(a, b, dp, i + 1, j, emit(st, "removed", a[i + 1], i, j))
    ELSE
      walkStopsEarly(a, b, dp, i, j + 1, emit(st, "added", b[j + 1], i, j))
  ELSE IF i < Len(a) THEN
    walkStopsEarly(a, b, dp, i + 1, j, emit(st, "removed", a[i + 1], i, j))
  ELSE IF j < Len(b) THEN
    walkStopsEarly(a, b, dp, i, j + 1, emit(st, "added", b[j + 1], i, j))
  ELSE st

RECURSIVE walkNoEqualBranch(_, _, _, _, _, _)
\* Mutant of walk: the first loop has no a[i] === b[j] branch, matching
\* tokens are reported as removed and added.
walkNoEqualBranch(a, b, dp, i, j, st) ==
  IF i < Len(a) /\ j < Len(b) THEN
    IF dp[i + 1, j] >= dp[i, j + 1] THEN
      walkNoEqualBranch(a, b, dp, i + 1, j, emit(st, "removed", a[i + 1], i, j))
    ELSE
      walkNoEqualBranch(a, b, dp, i, j + 1, emit(st, "added", b[j + 1], i, j))
  ELSE IF i < Len(a) THEN
    walkNoEqualBranch(a, b, dp, i + 1, j, emit(st, "removed", a[i + 1], i, j))
  ELSE IF j < Len(b) THEN
    walkNoEqualBranch(a, b, dp, i, j + 1, emit(st, "added", b[j + 1], i, j))
  ELSE st

RECURSIVE walk(_, _, _, _, _, _)
\* The three while loops of diffWords.  Once the first loop's condition is
\* false it stays false, so the loops are one recursion on (i, j).
walk(a, b, dp, i, j, st) ==
  IF i < Len(a) /\ j < Len(b) THEN
    IF a[i + 1] = b[j + 1] THEN
      walk(a, b, dp, i + 1, j + 1, emit(st, "equal", a[i + 1], i, j))
    ELSE IF dp[i + 1, j] >= dp[i, j + 1] THEN
      walk(a, b, dp, i + 1, j, emit(st, "removed", a[i + 1], i, j))
    ELSE
      walk(a, b, dp, i, j + 1, emit(st, "added", b[j + 1], i, j))
  ELSE IF i < Len(a) THEN
    walk(a, b, dp, i + 1, j, emit(st, "removed", a[i + 1], i, j))
  ELSE IF j < Len(b) THEN
    walk(a, b, dp, i, j + 1, emit(st, "added", b[j + 1], i, j))
  ELSE st

diffRun(oldText, newText) ==
  LET a == tokenize(oldText)
      b == tokenize(newText)
  IN  walk(a, b, lcsTable(a, b), 0, 0, [segments |-> <<>>, steps |-> <<>>])

diffWords(oldText, newText) == diffRun(oldText, newText).segments

\* ----------------------------------------------- inline-diff-resolver.tsx
RECURSIVE collect(_, _, _, _)
\* while (i < segs.length && segs[i].type === type) { acc += value; i++ }
collect(segs, i, type, acc) ==
  IF i <= Len(segs) /\ segs[i].type = type
  THEN collect(segs, i + 1, type, acc \o segs[i].value)
  ELSE [i |-> i, text |-> acc]

RECURSIVE groupLoopBoth(_, _, _)
\* Mutant of groupLoop: removed.length > 0 && added.length > 0 where the
\* source has ||.
groupLoopBoth(segs, i, ops) ==
  IF i > Len(segs) THEN ops
  ELSE IF segs[i].type = "equal" THEN
    groupLoopBoth(segs, i + 1, Append(ops, [type |-> "equal", value |-> segs[i].value]))
  ELSE
    LET removed == collect(segs, i, "removed", <<>>)
        added   == collect(segs, removed.i, "added", <<>>)
    IN  groupLoopBoth(segs, added.i,
          IF Len(removed.text) > 0 /\ Len(added.text) > 0
          THEN Append(ops, [type |-> "change", before |-> removed.text,
                            after |-> added.text])
          ELSE ops)

RECURSIVE groupLoopRemovedOnly(_, _, _)
\* Mutant of groupLoop: if (removed.length > 0) where the source also admits
\* added.length > 0.
groupLoopRemovedOnly(segs, i, ops) ==
  IF i > Len(segs) THEN ops
  ELSE IF segs[i].type = "equal" THEN
    groupLoopRemovedOnly(segs, i + 1,
      Append(ops, [type |-> "equal", value |-> segs[i].value]))
  ELSE
    LET removed == collect(segs, i, "removed", <<>>)
        added   == collect(segs, removed.i, "added", <<>>)
    IN  groupLoopRemovedOnly(segs, added.i,
          IF Len(removed.text) > 0
          THEN Append(ops, [type |-> "change", before |-> removed.text,
                            after |-> added.text])
          ELSE ops)

RECURSIVE groupLoopSplit(_, _, _)
\* Mutant of groupLoop: the removed run and the added run that follows it are
\* pushed as two change-ops.
groupLoopSplit(segs, i, ops) ==
  IF i > Len(segs) THEN ops
  ELSE IF segs[i].type = "equal" THEN
    groupLoopSplit(segs, i + 1, Append(ops, [type |-> "equal", value |-> segs[i].value]))
  ELSE
    LET removed == collect(segs, i, "removed", <<>>)
        added   == collect(segs, removed.i, "added", <<>>)
        one     == IF Len(removed.text) > 0
                   THEN Append(ops, [type |-> "change", before |-> removed.text,
                                     after |-> <<>>])
                   ELSE ops
    IN  groupLoopSplit(segs, added.i,
          IF Len(added.text) > 0
          THEN Append(one, [type |-> "change", before |-> <<>>,
                            after |-> added.text])
          ELSE one)

RECURSIVE groupLoop(_, _, _)
groupLoop(segs, i, ops) ==
  IF i > Len(segs) THEN ops
  ELSE IF segs[i].type = "equal" THEN
    groupLoop(segs, i + 1, Append(ops, [type |-> "equal", value |-> segs[i].value]))
  ELSE
    LET removed == collect(segs, i, "removed", <<>>)
        added   == collect(segs, removed.i, "added", <<>>)
    IN  groupLoop(segs, added.i,
          IF Len(removed.text) > 0 \/ Len(added.text) > 0
          THEN Append(ops, [type |-> "change", before |-> removed.text,
                            after |-> added.text])
          ELSE ops)

groupOps(before, after) == groupLoop(diffWords(before, after), 1, <<>>)

changeIdxs(ops) == {idx \in 1..Len(ops) : ops[idx].type = "change"}

RECURSIVE trailing(_)
\* op.after.match(/(\s*)$/)[1]: the trailing whitespace of the after text.
trailing(after) ==
  IF after # <<>> /\ isSpace(after[Len(after)])
  THEN Append(trailing(SubSeq(after, 1, Len(after) - 1)), after[Len(after)])
  ELSE <<>>

\* op.after.slice(0, op.after.length - trailing.length)
addCore(after) == SubSeq(after, 1, Len(after) - Len(trailing(after)))

\* Mutant of mergePiece: an accepted op contributes op.before.
mergePieceAcceptBefore(op, idx, next) ==
  IF op.type = "equal" THEN op.value ELSE op.before

\* Mutant of mergePiece: a pending op contributes op.after.
mergePiecePendingAfter(op, idx, next) ==
  IF op.type = "equal" THEN op.value
  ELSE LET d == IF idx \in DOMAIN next THEN next[idx] ELSE "undefined"
       IN  IF d = "undefined" \/ d = "pending" THEN op.after
           ELSE IF d = "accept" THEN op.after ELSE op.before

\* Mutant of mergePiece: an accepted op contributes addCore, the after text
\* without its trailing whitespace, as the render shows it.
mergePieceCore(op, idx, next) ==
  IF op.type = "equal" THEN op.value
  ELSE LET d == IF idx \in DOMAIN next THEN next[idx] ELSE "undefined"
       IN  IF d = "undefined" \/ d = "pending" THEN op.before
           ELSE IF d = "accept" THEN addCore(op.after) ELSE op.before

\* Text one op contributes to the merge under the decisions next.
mergePiece(op, idx, next) ==
  IF op.type = "equal" THEN op.value
  ELSE LET d == IF idx \in DOMAIN next THEN next[idx] ELSE "undefined"
       IN  IF d = "undefined" \/ d = "pending" THEN op.before
           ELSE IF d = "accept" THEN op.after ELSE op.before

\* Mutant of commit: Object.values(next).some where the source has every.
commitSome(ops, next) ==
  [merged      |-> join([idx \in 1..Len(ops) |-> mergePiece(ops[idx], idx, next)]),
   allResolved |-> \E idx \in DOMAIN next : next[idx] # "pending"]

\* commit: the arguments it passes to onChange.
commit(ops, next) ==
  [merged      |-> join([idx \in 1..Len(ops) |-> mergePiece(ops[idx], idx, next)]),
   allResolved |-> \A idx \in DOMAIN next : next[idx] # "pending"]

\* Mutant of mount: the initialiser gives every op index a decision, not only
\* the indices of change-ops.
mountAllIdxs(before, after) ==
  LET ops == groupOps(before, after)
  IN  [before    |-> before,
       after     |-> after,
       ops       |-> ops,
       decisions |-> [idx \in 1..Len(ops) |-> "pending"]]

\* A freshly mounted InlineDiffResolver: useMemo of ops and the useState
\* initialiser of decisions.
mount(before, after) ==
  LET ops == groupOps(before, after)
  IN  [before    |-> before,
       after     |-> after,
       ops       |-> ops,
       decisions |-> [idx \in changeIdxs(ops) |-> "pending"]]

\* Mutant of nextDecisions: the decision is given to idx and to every op
\* that is still pending.
nextDecisionsAllPending(prev, idx, decision) ==
  [k \in DOMAIN prev \cup {idx} |->
     IF k = idx \/ prev[k] = "pending" THEN decision ELSE prev[k]]

\* The updater of setDecision: { ...prev, [idx]: decision }.
nextDecisions(prev, idx, decision) ==
  [k \in DOMAIN prev \cup {idx} |-> IF k = idx THEN decision ELSE prev[k]]

\* The accept / decline buttons of op idx are rendered only while its
\* decision is pending.
hasButtons(r, idx) ==
  /\ idx \in changeIdxs(r.ops)
  /\ ~(idx \in DOMAIN r.decisions /\ r.decisions[idx] \in {"accept", "decline"})

Unmounted == [mounted |-> FALSE]

\* Indices of the ops a resolver renders.
opIdxs(r) == IF r = Unmounted THEN {} ELSE 1..Len(r.ops)

\* --------------------------------------------- workspace-sidebar.tsx: Contact
Fields == {"email", "subject", "text"}

NULL == [isNull |-> TRUE]

\* recipient, subject, body   useState(''): current values of the fields email,
\*                            subject and text
\* pendingChanges             useState(null): the held proposal, or NULL
\* status                     useState({email, subject, text: 'unchanged'})
\* fieldResolver              per field, the InlineDiffResolver Contact
\*                            renders for it, or Unmounted
\* resolver                   an InlineDiffResolver rendered with fixed props
\* lastEvent                  history: the handler that ran last and what it
\*                            passed to onChange
\* files                      DataDrop: useState([]), the dropped files; id
\*                            (history) names the File object, by (history)
\*                            the upload whose completion wrote the status
\* inflight                   DataDrop: the uploadFile calls awaiting
\*                            api.uploadPDF, each with its captured index
\* nextId                     history: the id the next dropped file gets
VARIABLES recipient, subject, body, pendingChanges, status, fieldResolver, resolver, lastEvent, files, inflight, nextId

vars == <<recipient, subject, body, pendingChanges, status, fieldResolver,
          resolver, lastEvent, files, inflight, nextId>>

contactVars == <<recipient, subject, body, pendingChanges, status, fieldResolver>>

dropVars == <<files, inflight, nextId>>

Proposals ==
  [email : FieldTexts.email, subject : FieldTexts.subject, text : FieldTexts.text]

\* Current values as a map over the proposal's field names.
values(r, s, b) == [email |-> r, subject |-> s, text |-> b]

currentValue == values(recipient, subject, body)

\* Mutant of resolverKey: key={`email`}, the same for every pair of values.
resolverKeyStatic(f, before, after) == <<f>>

\* key={`email-${recipient}|${pendingChanges.email}`}
resolverKey(f, before, after) == <<f, "-">> \o before \o <<"|">> \o after

\* useMemo(() => groupOps(before, after), [before, after]) of an instance that
\* stays mounted: ops are recomputed when a prop changed, decisions are kept.
rerender(r, before, after) ==
  [r EXCEPT !.before = before, !.after = after,
            !.ops = IF before = r.before /\ after = r.after THEN r.ops
                    ELSE groupOps(before, after)]

\* Mutant of render: the key differs on every render, so each render mounts a
\* new instance.
renderAlwaysRemount(cur, pend, st, prevResolver) ==
  [f \in Fields |->
     IF pend # NULL /\ st[f] = "pending"
     THEN [key |-> resolverKey(f, cur[f], pend[f])] @@ mount(cur[f], pend[f])
     ELSE Unmounted]

\* The render of Contact: a field shows an InlineDiffResolver iff a proposal
\* is held and the field is pending; React keeps the instance (and its
\* decisions) while the key is the same and mounts a new one otherwise.
render(cur, pend, st, prevResolver) ==
  [f \in Fields |->
     IF pend # NULL /\ st[f] = "pending"
     THEN LET k == resolverKey(f, cur[f], pend[f])
              r == prevResolver[f]
          IN  IF r # Unmounted /\ r.key = k
              THEN rerender(r, cur[f], pend[f])
              ELSE [key |-> k] @@ mount(cur[f], pend[f])
     ELSE Unmounted]

\* Mutant of initialStatus: every field of a delivered proposal is pending.
initialStatusAllPending(cur, incoming) == [f \in Fields |-> "pending"]

\* Mutant of initialStatus: subject is compared with incomingContactData.text.
initialStatusWrongField(cur, incoming) ==
  [f \in Fields |->
     IF cur[f] # incoming[IF f = "subject" THEN "text" ELSE f]
     THEN "pending" ELSE "unchanged"]

initialStatus(cur, incoming) ==
  [f \in Fields |-> IF cur[f] # incoming[f] THEN "pending" ELSE "unchanged"]

\* resolveIfDone: TRUE iff it calls setPendingChanges(null).
resolveIfDone(nextStatus) == ~(\E f \in Fields : nextStatus[f] = "pending")

\* Mutant of statusUpdater: a resolved field is applied whatever was merged.
statusUpdaterAlwaysApplied(prev, f, merged, allResolved, proposed) ==
  LET nextState == IF allResolved THEN "applied" ELSE "pending"
  IN  [prev EXCEPT ![f] = nextState]

\* The updater passed to setStatus by the onChange of field f.
statusUpdater(prev, f, merged, allResolved, proposed) ==
  LET nextState == IF allResolved
                   THEN (IF merged = proposed THEN "applied" ELSE "dismissed")
                   ELSE "pending"
  IN  [prev EXCEPT ![f] = nextState]

\* Mutant of onChange: the field's value is set only when allResolved.
onChangeFinalOnly(cur, st, pend, f, merged, allResolved) ==
  LET next == statusUpdater(st, f, merged, allResolved, pend[f])
  IN  [currentValue   |-> IF allResolved THEN [cur EXCEPT ![f] = merged] ELSE cur,
       status         |-> next,
       pendingChanges |-> IF next[f] # "pending" /\ resolveIfDone(next)
                          THEN NULL ELSE pend]

\* Mutant of onChange: the proposal is cleared as soon as this field leaves
\* pending, whatever the other fields' statuses.
onChangeClearsEarly(cur, st, pend, f, merged, allResolved) ==
  LET next == statusUpdater(st, f, merged, allResolved, pend[f])
  IN  [currentValue   |-> [cur EXCEPT ![f] = merged],
       status         |-> next,
       pendingChanges |-> IF next[f] # "pending" THEN NULL ELSE pend]

\* The onChange Contact passes to the resolver of field f: the state of
\* Contact after setRecipient / setSubject / setBody, setStatus and, through
\* resolveIfDone, setPendingChanges.
onChange(cur, st, pend, f, merged, allResolved) ==
  LET next == statusUpdater(st, f, merged, allResolved, pend[f])
  IN  [currentValue   |-> [cur EXCEPT ![f] = merged],
       status         |-> next,
       pendingChanges |-> IF next[f] # "pending" /\ resolveIfDone(next)
                          THEN NULL ELSE pend]

Init ==
  /\ recipient = <<>>
  /\ subject = <<>>
  /\ body = <<>>
  /\ pendingChanges = NULL
  /\ status = [f \in Fields |-> "unchanged"]
  /\ fieldResolver = [f \in Fields |-> Unmounted]
  /\ resolver = Unmounted
  /\ lastEvent = [op |-> "init"]
  /\ files = <<>>
  /\ inflight = {}
  /\ nextId = 1

\* Mutant of Deliver: a proposal is taken only when none is held.
DeliverIfNoneHeld(incoming) ==
  /\ pendingChanges' = IF pendingChanges = NULL THEN incoming ELSE pendingChanges
  /\ status' = IF pendingChanges = NULL THEN initialStatus(currentValue, incoming)
                ELSE status
  /\ UNCHANGED <<recipient, subject, body>>
  /\ fieldResolver' = render(currentValue, pendingChanges', status', fieldResolver)
  /\ lastEvent' = [op |-> "deliver", incoming |-> incoming]
  /\ UNCHANGED <<resolver, dropVars>>

\* useEffect on incomingContactData: the parent passes a new proposal object.
Deliver(incoming) ==
  /\ pendingChanges' = incoming
  /\ status' = initialStatus(currentValue, incoming)
  /\ UNCHANGED <<recipient, subject, body>>
  /\ fieldResolver' = render(currentValue, pendingChanges', status', fieldResolver)
  /\ lastEvent' = [op |-> "deliver", incoming |-> incoming]
  /\ UNCHANGED <<resolver, dropVars>>

\* A click on the accept or decline button of op idx in field f:
\* setDecision -> commit -> the field's onChange in Contact, then the render.
Decide(f, idx, decision) ==
  /\ fieldResolver[f] # Unmounted
  /\ hasButtons(fieldResolver[f], idx)
  /\ LET r    == fieldResolver[f]
         next == nextDecisions(r.decisions, idx, decision)
         out  == commit(r.ops, next)
         post == onChange(currentValue, status, pendingChanges, f,
                          out.merged, out.allResolved)
     IN  /\ recipient' = post.currentValue.email
         /\ subject' = post.currentValue.subject
         /\ body' = post.currentValue.text
         /\ status' = post.status
         /\ pendingChanges' = post.pendingChanges
         /\ fieldResolver' =
              render(post.currentValue, post.pendingChanges, post.status,
                     [fieldResolver EXCEPT ![f].decisions = next])
         /\ lastEvent' = [op |-> "onChange", field |-> f, idx |-> idx,
                          decision |-> decision, merged |-> out.merged,
                          allResolved |-> out.allResolved,
                          declined |-> Cardinality({k \in DOMAIN r.decisions :
                                                     r.decisions[k] = "decline"})]
  /\ UNCHANGED <<resolver, dropVars>>

\* A click on one of the accept (or decline) buttons field f shows.
Click(f, decision) ==
  \E idx \in opIdxs(fieldResolver[f]) : Decide(f, idx, decision)

\* Mutant of acceptAll: only the fields still pending take the proposed value
\* and become applied.
acceptAllPendingOnly ==
  /\ pendingChanges # NULL
  /\ recipient' = IF status.email = "pending" THEN pendingChanges.email ELSE recipient
  /\ subject' = IF status.subject = "pending" THEN pendingChanges.subject ELSE subject
  /\ body' = IF status.text = "pending" THEN pendingChanges.text ELSE body
  /\ status' = [f \in Fields |-> IF status[f] = "pending" THEN "applied" ELSE status[f]]
  /\ pendingChanges' = NULL
  /\ fieldResolver' = render(values(recipient', subject', body'), NULL, status',
                             fieldResolver)
  /\ lastEvent' = [op |-> "acceptAll", was |-> status]
  /\ UNCHANGED <<resolver, dropVars>>

acceptAll ==
  /\ pendingChanges # NULL
  /\ recipient' = pendingChanges.email
  /\ subject' = pendingChanges.subject
  /\ body' = pendingChanges.text
  /\ status' = [f \in Fields |-> "applied"]
  /\ pendingChanges' = NULL
  /\ fieldResolver' = render(values(recipient', subject', body'), NULL, status',
                             fieldResolver)
  /\ lastEvent' = [op |-> "acceptAll", was |-> status]
  /\ UNCHANGED <<resolver, dropVars>>

\* Mutant of declineAll: only the fields still pending become dismissed.
declineAllPendingOnly ==
  /\ pendingChanges # NULL
  /\ status' = [f \in Fields |-> IF status[f] = "pending" THEN "dismissed" ELSE status[f]]
  /\ pendingChanges' = NULL
  /\ UNCHANGED <<recipient, subject, body>>
  /\ fieldResolver' = render(currentValue, NULL, status', fieldResolver)
  /\ lastEvent' = [op |-> "declineAll", was |-> status]
  /\ UNCHANGED <<resolver, dropVars>>

declineAll ==
  /\ pendingChanges # NULL
  /\ status' = [f \in Fields |-> "dismissed"]
  /\ pendingChanges' = NULL
  /\ UNCHANGED <<recipient, subject, body>>
  /\ fieldResolver' = render(currentValue, NULL, status', fieldResolver)
  /\ lastEvent' = [op |-> "declineAll", was |-> status]
  /\ UNCHANGED <<resolver, dropVars>>

\* Typing in the plain input of field f, shown when f has no resolver.
Type(f, text) ==
  /\ ~(pendingChanges # NULL /\ status[f] = "pending")
  /\ text # currentValue[f]
  /\ recipient' = IF f = "email" THEN text ELSE recipient
  /\ subject' = IF f = "subject" THEN text ELSE subject
  /\ body' = IF f = "text" THEN text ELSE body
  /\ UNCHANGED <<pendingChanges, status>>
  /\ fieldResolver' = render(values(recipient', subject', body'), pendingChanges,
                             status, fieldResolver)
  /\ lastEvent' = [op |-> "type"]
  /\ UNCHANGED <<resolver, dropVars>>

Next ==
  \/ \E incoming \in Proposals : Deliver(incoming)
  \/ \E f \in Fields, decision \in {"accept", "decline"} : Click(f, decision)
  \/ acceptAll
  \/ declineAll
  \/ \E f \in Fields : \E text \in FieldTexts[f] : Type(f, text)

Spec == Init /\ [][Next]_vars

LongProposals ==
  [email : LongTexts.email, subject : LongTexts.subject, text : LongTexts.text]

\* Contact in a session on long bodies.
NextLong ==
  \/ \E incoming \in LongProposals : Deliver(incoming)
  \/ \E f \in Fields, decision \in {"accept", "decline"} : Click(f, decision)
  \/ acceptAll
  \/ declineAll
  \/ \E f \in Fields : \E text \in LongTexts[f] : Type(f, text)

SpecLong == Init /\ [][NextLong]_vars

\* useEffect on incomingContactData when the parent passes null: the body of
\* if (incomingContactData) is skipped.
DeliverNothing ==
  /\ UNCHANGED contactVars
  /\ lastEvent' = [op |-> "deliverNull"]
  /\ UNCHANGED <<resolver, dropVars>>

NextSupersede ==
  \/ NextLong
  \/ DeliverNothing

SpecSupersede == Init /\ [][NextSupersede]_vars

\* Field f shows an accept button: the guard of Click(f, "accept").
acceptEnabled(f) ==
  /\ fieldResolver[f] # Unmounted
  /\ \E idx \in opIdxs(fieldResolver[f]) : hasButtons(fieldResolver[f], idx)

\* The step is a click on an accept button of field f.
accepted(f) ==
  /\ lastEvent'.op = "onChange"
  /\ lastEvent'.field = f
  /\ lastEvent'.decision = "accept"

\* A user who does not leave an accept button unclicked for ever: weak
\* fairness of Click(f, "accept"), WF_vars(Click(f, "accept")), written out
\* with the guard of the click as its enabling condition.
SpecLongFair ==
  SpecLong /\ \A f \in Fields :
               []<>(~acceptEnabled(f)) \/ []<><<accepted(f)>>_vars

\* Orders in which two or three fields can report in one update cycle.
Orders ==
  {o \in UNION {[1..n -> Fields] : n \in 2..3} :
     \A i, j \in DOMAIN o : i # j => o[i] # o[j]}

RECURSIVE applyUpdatersStale(_, _, _)
\* Mutant of applyUpdaters: setStatus({ ...status, [f]: nextState }), each
\* handler builds its map from the status of the render it was created in.
applyUpdatersStale(acc, pend, reports) ==
  IF reports = <<>> THEN acc
  ELSE LET rep  == Head(reports)
           next == statusUpdater(acc.rendered, rep.field, rep.merged,
                                 rep.allResolved, pend[rep.field])
       IN  applyUpdatersStale(
             [rendered |-> acc.rendered,
              status   |-> next,
              cleared  |-> acc.cleared
                           \/ (next[rep.field] # "pending" /\ resolveIfDone(next))],
             pend, Tail(reports))

RECURSIVE applyUpdaters(_, _, _)
\* The setStatus((prev) => ...) updaters queued in one update cycle: each is
\* applied to the map the previous one returned; cleared tells whether one of
\* them reached setPendingChanges(null) through resolveIfDone.
applyUpdaters(acc, pend, reports) ==
  IF reports = <<>> THEN acc
  ELSE LET rep  == Head(reports)
           next == statusUpdater(acc.status, rep.field, rep.merged,
                                 rep.allResolved, pend[rep.field])
       IN  applyUpdaters(
             [rendered |-> acc.rendered,
              status   |-> next,
              cleared  |-> acc.cleared
                           \/ (next[rep.field] # "pending" /\ resolveIfDone(next))],
             pend, Tail(reports))

\* The resolvers of the fields of order each report one decision before
\* Contact renders again: every onChange is the closure of the same render
\* (same pendingChanges), its setRecipient / setSubject / setBody sets its own
\* field, and the setStatus updaters run in the order of the reports.
ClickSeveral(order) ==
  /\ \A k \in DOMAIN order : fieldResolver[order[k]] # Unmounted
  /\ LET ran == {order[k] : k \in DOMAIN order}
     IN  \E choice \in [ran -> (UNION {opIdxs(fieldResolver[f]) : f \in ran})
                                \X {"accept", "decline"}] :
           /\ \A f \in ran : hasButtons(fieldResolver[f], choice[f][1])
           /\ LET next(f) == nextDecisions(fieldResolver[f].decisions,
                                           choice[f][1], choice[f][2])
                  out(f)  == commit(fieldResolver[f].ops, next(f))
                  reports == [k \in DOMAIN order |->
                                [field       |-> order[k],
                                 merged      |-> out(order[k]).merged,
                                 allResolved |-> out(order[k]).allResolved]]
                  post    == applyUpdaters([rendered |-> status, status |-> status,
                                            cleared |-> FALSE],
                                           pendingChanges, reports)
                  cur     == [f \in Fields |->
                                IF f \in ran THEN out(f).merged ELSE currentValue[f]]
              IN  /\ recipient' = cur.email
                  /\ subject' = cur.subject
                  /\ body' = cur.text
                  /\ status' = post.status
                  /\ pendingChanges' = IF post.cleared THEN NULL ELSE pendingChanges
                  /\ fieldResolver' =
                       render(cur, pendingChanges', status',
                              [f \in Fields |->
                                 IF f \in ran
                                 THEN [fieldResolver[f] EXCEPT !.decisions = next(f)]
                                 ELSE fieldResolver[f]])
                  /\ lastEvent' = [op |-> "batch", reports |-> reports,
                                   was |-> status]
  /\ UNCHANGED <<resolver, dropVars>>

NextBatch ==
  \/ Next
  \/ \E order \in Orders : ClickSeveral(order)

SpecBatch == Init /\ [][NextBatch]_vars

\* ------------------------------------------- InlineDiffResolver on its own
\* The component under fixed props: the parent keeps before and after as they
\* are, whatever onChange reports.
InitResolver ==
  /\ \E before \in Strings, after \in Strings : resolver = mount(before, after)
  /\ lastEvent = [op |-> "mount"]
  /\ recipient = <<>>
  /\ subject = <<>>
  /\ body = <<>>
  /\ pendingChanges = NULL
  /\ status = [f \in Fields |-> "unchanged"]
  /\ fieldResolver = [f \in Fields |-> Unmounted]
  /\ files = <<>>
  /\ inflight = {}
  /\ nextId = 1

setDecision(idx, decision) ==
  /\ hasButtons(resolver, idx)
  /\ LET next == nextDecisions(resolver.decisions, idx, decision)
         out  == commit(resolver.ops, next)
     IN  /\ resolver' = [resolver EXCEPT !.decisions = next]
         /\ lastEvent' = [op |-> "onChange", idx |-> idx, decision |-> decision,
                          merged |-> out.merged, allResolved |-> out.allResolved]
  /\ UNCHANGED <<contactVars, dropVars>>

\* A click on one of the accept (or decline) buttons the resolver shows.
ClickButton(decision) ==
  \E idx \in opIdxs(resolver) : setDecision(idx, decision)

NextResolver == \E decision \in {"accept", "decline"} : ClickButton(decision)

SpecResolver == InitResolver /\ [][NextResolver]_vars

\* ------------------------------------------------------ data-drop: DataDrop
FileTypes == {"application/pdf", "text/plain"}

\* The lists of files one drop or one browse can hand to addFiles, each file
\* given by its type.
Drops == UNION {[1..n -> FileTypes] : n \in 1..MaxDrop}

isPdf(type) == type = "application/pdf"

\* prev.map((f, i) => (i === index ? { ...f, status } : f)); by (history) is
\* the upload that wrote the status.
setStatusAt(prev, index, st, by) ==
  [i \in 1..Len(prev) |->
     IF i - 1 = index THEN [prev[i] EXCEPT !.status = st, !.by = by] ELSE prev[i]]

RECURSIVE uploadFileStart(_, _, _, _)
\* arr.forEach((fileObj, index) => uploadFile(fileObj, files.length + index)),
\* up to the await of each call: the 'uploading' updaters, applied in order
\* to the list that already holds the appended files.  base is files.length
\* of the render that created addFiles.
uploadFileStart(prev, arr, base, k) ==
  IF k > Len(arr) THEN prev
  ELSE uploadFileStart(setStatusAt(prev, base + (k - 1), "uploading", arr[k].id),
                       arr, base, k + 1)

addFiles(list) ==
  LET pdfFiles == SelectSeq(list, isPdf)
      arr == [k \in 1..Len(pdfFiles) |->
                [id |-> nextId + (k - 1), status |-> "pending", by |-> 0]]
  IN  /\ nextId + Len(pdfFiles) - 1 <= MaxFiles
      /\ files' = uploadFileStart(files \o arr, arr, Len(files), 1)
      /\ inflight' = inflight \cup {[id |-> arr[k].id, index |-> Len(files) + (k - 1)] :
                                      k \in 1..Len(arr)}
      /\ nextId' = nextId + Len(pdfFiles)
      /\ UNCHANGED <<contactVars, resolver, lastEvent>>

\* The await of one uploadFile call returns (outcome success) or throws
\* (outcome error): the updater writes the status at the captured index.
uploadFileSettles(outcome) ==
  \E u \in inflight :
    /\ files' = setStatusAt(files, u.index, outcome, u.id)
    /\ inflight' = inflight \ {u}
    /\ UNCHANGED <<nextId, contactVars, resolver, lastEvent>>

\* prev.filter((_, i) => i !== index)
filterOut(prev, index) ==
  [i \in 1..Len(prev) - 1 |-> IF i - 1 < index THEN prev[i] ELSE prev[i + 1]]

\* A click on the remove button of the file shown at index.
removeAt ==
  \E index \in 0..Len(files) - 1 :
    /\ files' = filterOut(files, index)
    /\ UNCHANGED <<inflight, nextId, contactVars, resolver, lastEvent>>

NextDrop ==
  \/ \E list \in Drops : addFiles(list)
  \/ \E outcome \in {"success", "error"} : uploadFileSettles(outcome)
  \/ removeAt

SpecDrop == Init /\ [][NextDrop]_vars

\* ===================================================== properties checked
\* ---- helpers of the properties (not part of the program)
RECURSIVE flatten(_)
flatten(seqs) == IF seqs = <<>> THEN <<>> ELSE Head(seqs) \o flatten(Tail(seqs))

\* The segments that carry text of the old (side = "removed") or of the new
\* (side = "added") input.
sideSegs(segs, side) == SelectSeq(segs, LAMBDA s : s.type \in {"equal", side})

segValues(segs) == [k \in 1..Len(segs) |-> segs[k].value]

segTokens(segs) == [k \in 1..Len(segs) |-> tokenize(segs[k].value)]

OpBefore(op) == IF op.type = "equal" THEN op.value ELSE op.before
OpAfter(op) == IF op.type = "equal" THEN op.value ELSE op.after

RECURSIVE Merge(_, _, _)
\* Left-to-right merge of ops[k..] under the decisions dec.
Merge(ops, dec, k) ==
  IF k > Len(ops) THEN <<>>
  ELSE (IF ops[k].type = "equal" THEN ops[k].value
        ELSE IF dec[k] = "accept" THEN ops[k].after
        ELSE ops[k].before) \o Merge(ops, dec, k + 1)

RECURSIVE IsSubsequence(_, _)
IsSubsequence(x, y) ==
  IF x = <<>> THEN TRUE
  ELSE IF y = <<>> THEN FALSE
  ELSE IF Head(x) = Head(y) THEN IsSubsequence(Tail(x), Tail(y))
  ELSE IsSubsequence(x, Tail(y))

RECURSIVE pick(_, _, _)
\* The subsequence of s at the indices I that are >= k.
pick(s, I, k) ==
  IF k > Len(s) THEN <<>>
  ELSE (IF k \in I THEN <<s[k]>> ELSE <<>>) \o pick(s, I, k + 1)

\* Length of a longest common subsequence, by enumeration.
LongestCommon(a, b) ==
  CHOOSE n \in 0..Len(a) :
    /\ \E I \in SUBSET (1..Len(a)) :
         Cardinality(I) = n /\ IsSubsequence(pick(a, I, 1), b)
    /\ \A I \in SUBSET (1..Len(a)) :
         IsSubsequence(pick(a, I, 1), b) => Cardinality(I) <= n

RECURSIVE sumLen(_)
sumLen(seqs) == IF seqs = <<>> THEN 0 ELSE Len(Head(seqs)) + sumLen(Tail(seqs))

decided(r, d) == {idx \in changeIdxs(r.ops) : r.decisions[idx] = d}

\* C1: with fixed props, once every change-op has been decided accept, the
\* merged text passed to onChange is exactly after and allResolved is true.
C1_AcceptAllYieldsAfter ==
  (/\ lastEvent.op = "onChange"
   /\ decided(resolver, "accept") = changeIdxs(resolver.ops))
  => /\ lastEvent.merged = resolver.after
     /\ lastEvent.allResolved = TRUE

C1_Witness ==
  /\ lastEvent.op = "onChange"
  /\ Cardinality(changeIdxs(resolver.ops)) >= 2
  /\ \E idx \in 1..Len(resolver.ops) : resolver.ops[idx].type = "equal"
  /\ decided(resolver, "accept") = changeIdxs(resolver.ops)

\* C2: whenever no change-op is accepted (each is declined or pending), the
\* merged text the Merge Compiler computes is exactly before.
C2_NoAcceptYieldsBefore ==
  decided(resolver, "accept") = {}
  => /\ commit(resolver.ops, resolver.decisions).merged = resolver.before
     /\ lastEvent.op = "onChange" => lastEvent.merged = resolver.before

C2_Witness ==
  /\ lastEvent.op = "onChange"
  /\ decided(resolver, "decline") # {}
  /\ decided(resolver, "pending") # {}
  /\ decided(resolver, "accept") = {}

\* C3: round trip.  The equal and removed segments of diffWords, and the
\* before sides of the ops, concatenate to before; the equal and added
\* segments, and the after sides of the ops, concatenate to after; and the
\* tokens of the segments of each side are the tokens of that input, each
\* once and in order.  (Checked for every pair of inputs, in the state in
\* which the resolver is mounted with it.)
C3_RoundTrip ==
  LET segs == diffWords(resolver.before, resolver.after)
      ops  == resolver.ops
  IN  lastEvent.op = "mount" =>
      /\ join(segValues(sideSegs(segs, "removed"))) = resolver.before
      /\ join(segValues(sideSegs(segs, "added"))) = resolver.after
      /\ join([k \in 1..Len(ops) |-> OpBefore(ops[k])]) = resolver.before
      /\ join([k \in 1..Len(ops) |-> OpAfter(ops[k])]) = resolver.after
      /\ flatten(segTokens(sideSegs(segs, "removed"))) = tokenize(resolver.before)
      /\ flatten(segTokens(sideSegs(segs, "added"))) = tokenize(resolver.after)

C3_Witness ==
  LET segs == diffWords(resolver.before, resolver.after)
  IN  /\ lastEvent.op = "mount"
      /\ \E k \in 1..Len(segs) : segs[k].type = "equal"
      /\ \E k \in 1..Len(segs) :
           segs[k].type = "removed" /\ Len(tokenize(segs[k].value)) >= 2
      /\ \E k \in 1..Len(segs) : segs[k].type = "added"

\* C4: the number of tokens diffWords places in equal segments is the length
\* of a longest common subsequence of the two token sequences.  (Checked for
\* every pair of inputs, in the state in which the resolver is mounted.)
C4_AlignmentOptimal ==
  LET segs == diffWords(resolver.before, resolver.after)
  IN  lastEvent.op = "mount" =>
      sumLen(segTokens(SelectSeq(segs, LAMBDA s : s.type = "equal")))
        = LongestCommon(tokenize(resolver.before), tokenize(resolver.after))

C4_Witness ==
  LET a == tokenize(resolver.before)
      b == tokenize(resolver.after)
  IN  /\ lastEvent.op = "mount"
      /\ LongestCommon(a, b) >= 2
      /\ LongestCommon(a, b) < Len(a)
      /\ LongestCommon(a, b) < Len(b)
      /\ a[1] # b[1]

\* C5: at every step of the walk where both inputs have a token left and the
\* tokens differ, a tie dp[i+1][j] = dp[i][j+1] consumes a[i] as removed (the
\* walk goes on at (i+1, j)), and b[j] is emitted as added only when
\* dp[i][j+1] is strictly greater.  (Checked for every pair of inputs, in the
\* state in which the resolver is mounted.)
C5_TieBreak ==
  LET a   == tokenize(resolver.before)
      b   == tokenize(resolver.after)
      dp  == lcsTable(a, b)
      run == diffRun(resolver.before, resolver.after).steps
  IN  lastEvent.op = "mount" =>
      \A k \in 1..Len(run) :
        LET i == run[k].i
            j == run[k].j
        IN  (i < Len(a) /\ j < Len(b) /\ a[i + 1] # b[j + 1])
            => /\ dp[i + 1, j] = dp[i, j + 1]
                    => /\ run[k].type = "removed"
                       /\ k < Len(run) => run[k + 1].i = i + 1 /\ run[k + 1].j = j
               /\ run[k].type = "added" => dp[i, j + 1] > dp[i + 1, j]
               /\ run[k].type \in {"removed", "added"}

C5_Witness ==
  LET a   == tokenize(resolver.before)
      b   == tokenize(resolver.after)
      dp  == lcsTable(a, b)
      run == diffRun(resolver.before, resolver.after).steps
  IN  \E k \in 1..Len(run) :
        LET i == run[k].i
            j == run[k].j
        IN  /\ lastEvent.op = "mount"
            /\ i < Len(a) /\ j < Len(b) /\ a[i + 1] # b[j + 1]
            /\ dp[i + 1, j] = dp[i, j + 1]
            /\ dp[i + 1, j] >= 1
            /\ run[k].type = "removed"

\* C6: diffWords(x, x) has only equal segments and groupOps(x, x) has only
\* equal ops, no change-op, for every x.
C6_SelfDiffOnlyEqual ==
  resolver.before = resolver.after
  => /\ \A k \in 1..Len(resolver.ops) : resolver.ops[k].type = "equal"
     /\ changeIdxs(resolver.ops) = {}
     /\ LET segs == diffWords(resolver.before, resolver.after)
        IN  \A k \in 1..Len(segs) : segs[k].type = "equal"

C6_Witness ==
  /\ resolver.before = resolver.after
  /\ Len(tokenize(resolver.before)) >= 3

\* C7: for every mix of decisions the merged text passed to onChange is the
\* in-order concatenation of each equal-op's value and, per change-op, its
\* after if the decision is accept and its before otherwise (decline and
\* pending alike).
C7_MergeFormula ==
  lastEvent.op = "onChange"
  => lastEvent.merged = Merge(resolver.ops, resolver.decisions, 1)

C7_Witness ==
  /\ lastEvent.op = "onChange"
  /\ decided(resolver, "accept") # {}
  /\ decided(resolver, "pending") \cup decided(resolver, "decline") # {}
  /\ lastEvent.merged # resolver.before
  /\ lastEvent.merged # resolver.after

\* C8: the resolved flag passed to onChange is true iff no change-op of the
\* operation list has decision pending.
C8_ResolvedFlag ==
  lastEvent.op = "onChange"
  => (lastEvent.allResolved = TRUE <=> decided(resolver, "pending") = {})

C8_Witness ==
  /\ lastEvent.op = "onChange"
  /\ lastEvent.allResolved = TRUE
  /\ decided(resolver, "accept") # {}
  /\ decided(resolver, "decline") # {}

\* C9: every decide in a field of Contact passes (merged, allResolved) to the
\* field's onChange, whether or not it resolves the field, and Contact sets
\* the field's current value to merged; a field that shows a resolver has as
\* current value the merge of that resolver's ops under its decisions.
C9_ValueFollowsMerge ==
  /\ lastEvent.op = "onChange"
       => currentValue[lastEvent.field] = lastEvent.merged
  /\ \A f \in Fields :
       fieldResolver[f] # Unmounted
       => currentValue[f] = Merge(fieldResolver[f].ops, fieldResolver[f].decisions, 1)

C9_Witness ==
  /\ lastEvent.op = "onChange"
  /\ lastEvent.decision = "accept"
  /\ lastEvent.allResolved = FALSE
  /\ status[lastEvent.field] = "pending"
  /\ fieldResolver[lastEvent.field] # Unmounted

\* C10: after a proposal is delivered it is the held proposal, and each field
\* is pending if its current value differs from the proposal's value for it
\* and unchanged otherwise.
C10_DeliverSetsStatus ==
  lastEvent.op = "deliver"
  => /\ pendingChanges = lastEvent.incoming
     /\ \A f \in Fields :
          status[f] = IF currentValue[f] # pendingChanges[f]
                      THEN "pending" ELSE "unchanged"

C10_Witness ==
  /\ lastEvent.op = "deliver"
  /\ \E f \in Fields : status[f] = "pending" /\ currentValue[f] # <<>>
  /\ \E f \in Fields : status[f] = "unchanged"

\* C11: a decision whose onChange reports allResolved = TRUE sets the field's
\* status to applied if the merged value equals the value the held proposal
\* has for the field, and to dismissed otherwise; one that reports
\* allResolved = FALSE leaves the field pending.
C11_ResolutionStatus ==
  [][lastEvent'.op = "onChange"
     => LET f == lastEvent'.field
        IN  /\ status[f] = "pending"
            /\ status'[f] =
                 IF lastEvent'.allResolved
                 THEN (IF lastEvent'.merged = pendingChanges[f]
                       THEN "applied" ELSE "dismissed")
                 ELSE "pending"]_vars

C11_Witness ==
  /\ lastEvent.op = "onChange"
  /\ lastEvent.allResolved = TRUE
  /\ lastEvent.decision = "accept"
  /\ status[lastEvent.field] = "dismissed"
  /\ \E f \in Fields : status[f] = "applied"

\* C12: acceptAll, in any state in which a proposal is held, sets every
\* field's current value to the proposal's value for it and every status to
\* applied, and clears the proposal, in one step.
C12_AcceptAll ==
  [][lastEvent'.op = "acceptAll"
     => /\ pendingChanges # NULL
        /\ values(recipient', subject', body') = pendingChanges
        /\ \A f \in Fields : status'[f] = "applied"
        /\ pendingChanges' = NULL
        /\ \A f \in Fields : fieldResolver'[f] = Unmounted]_vars

\* acceptAll has run on a proposal of which one field was already dismissed,
\* one unchanged and one still pending.
C12_Witness ==
  /\ lastEvent.op = "acceptAll"
  /\ \E f \in Fields : lastEvent.was[f] = "dismissed"
  /\ \E f \in Fields : lastEvent.was[f] = "unchanged"
  /\ \E f \in Fields : lastEvent.was[f] = "pending"
  /\ pendingChanges = NULL

\* C13: declineAll, in any state in which a proposal is held, leaves every
\* field's current value as it is at that moment (text merged by earlier
\* accepts stays), sets every status to dismissed, and clears the proposal,
\* in one step.
C13_DeclineAll ==
  [][lastEvent'.op = "declineAll"
     => /\ pendingChanges # NULL
        /\ values(recipient', subject', body') = currentValue
        /\ \A f \in Fields : status'[f] = "dismissed"
        /\ pendingChanges' = NULL
        /\ \A f \in Fields : fieldResolver'[f] = Unmounted]_vars

\* declineAll has run while the body held a partly accepted text (neither
\* empty nor one of the texts a proposal or the user puts there) and another
\* field was already applied.
C13_Witness ==
  /\ lastEvent.op = "declineAll"
  /\ body \notin FieldTexts.text \cup {<<>>}
  /\ lastEvent.was.text = "pending"
  /\ \E f \in Fields : lastEvent.was[f] = "applied"
  /\ pendingChanges = NULL

anyPending(st) == \E f \in Fields : st[f] = "pending"

\* C14: in every reachable state the controller holds a proposal if and only
\* if at least one field has status pending.
C14_HeldIffPending == (pendingChanges # NULL) <=> anyPending(status)

\* C15: per-field resolution never discards the proposal while a field is
\* still pending.  After every step, a pending field implies a held proposal;
\* a decision that leaves some field pending leaves the same proposal held;
\* and the proposal is cleared only by acceptAll, by declineAll, or by the
\* decision that resolves the last pending field.
C15_HeldWhilePending ==
  [][/\ anyPending(status') => pendingChanges' # NULL
     /\ (lastEvent'.op = "onChange" /\ anyPending(status'))
          => pendingChanges' = pendingChanges
     /\ (pendingChanges # NULL /\ pendingChanges' = NULL)
          => \/ lastEvent'.op \in {"acceptAll", "declineAll"}
             \/ /\ lastEvent'.op = "onChange"
                /\ lastEvent'.allResolved = TRUE
                /\ ~anyPending(status')]_vars

\* One field was unchanged from the delivery on, the decision just taken
\* resolved another field, and the proposal is still held for a third one.
C15_Witness ==
  /\ lastEvent.op = "onChange"
  /\ lastEvent.allResolved = TRUE
  /\ status[lastEvent.field] \in {"applied", "dismissed"}
  /\ \E f \in Fields : status[f] = "unchanged"
  /\ \E f \in Fields : status[f] = "pending"
  /\ pendingChanges # NULL

\* The (before, after) pair Contact passes to the resolver of field f.
pairOf(cur, pend, f) == <<cur[f], pend[f]>>

showsResolver(pend, st, f) == pend # NULL /\ st[f] = "pending"

freshFor(r, before, after) ==
  /\ r.before = before
  /\ r.after = after
  /\ r.ops = groupOps(before, after)
  /\ DOMAIN r.decisions = changeIdxs(r.ops)
  /\ \A idx \in DOMAIN r.decisions : r.decisions[idx] = "pending"

\* C16: whenever a step changes the (before, after) pair of a field that is
\* pending before and after the step (an accepted op changed its current
\* value, or a new proposal changed its proposed value), the field's
\* operation list and decisions after the step are those built from the new
\* pair, every decision pending.
C16_Regeneration ==
  [][\A f \in Fields :
       (/\ showsResolver(pendingChanges, status, f)
        /\ showsResolver(pendingChanges', status', f)
        /\ pairOf(values(recipient', subject', body'), pendingChanges', f)
             # pairOf(currentValue, pendingChanges, f))
       => /\ fieldResolver'[f] # Unmounted
          /\ freshFor(fieldResolver'[f], values(recipient', subject', body')[f],
                      pendingChanges'[f])]_vars

\* An accept that did not resolve its field has just changed the field's
\* value, and the field shows a list of at least two change-ops built from
\* the merged value.
C16_Witness ==
  /\ lastEvent.op = "onChange"
  /\ lastEvent.decision = "accept"
  /\ showsResolver(pendingChanges, status, lastEvent.field)
  /\ LET r == fieldResolver[lastEvent.field]
     IN  /\ r.before = lastEvent.merged
         /\ Cardinality(changeIdxs(r.ops)) >= 1
         /\ \A idx \in DOMAIN r.decisions : r.decisions[idx] = "pending"

\* C17: in every state, the resolver a field shows has as operation list the
\* one derived from the field's current and proposed value, and the indices
\* that hold a decision are exactly the indices of its change-ops; and when
\* a step changes the operation list of a field's resolver, no decision made
\* before the step is left (all are pending).
C17_NoStaleIndex ==
  [][\A f \in Fields :
       fieldResolver'[f] # Unmounted
       => LET r == fieldResolver'[f]
          IN  /\ showsResolver(pendingChanges', status', f)
              /\ r.before = values(recipient', subject', body')[f]
              /\ r.after = pendingChanges'[f]
              /\ r.ops = groupOps(r.before, r.after)
              /\ DOMAIN r.decisions = changeIdxs(r.ops)
              /\ (fieldResolver[f] # Unmounted /\ fieldResolver[f].ops # r.ops)
                   => \A idx \in DOMAIN r.decisions : r.decisions[idx] = "pending"]_vars

\* A field's resolver holds a decline next to a pending decision, in a list
\* that also has an equal-op (so op indices and change-op indices differ).
C17_Witness ==
  \E f \in Fields :
    /\ fieldResolver[f] # Unmounted
    /\ decided(fieldResolver[f], "decline") # {}
    /\ decided(fieldResolver[f], "pending") # {}
    /\ changeIdxs(fieldResolver[f].ops) # 1..Len(fieldResolver[f].ops)

uniform(token) ==
  \A p, q \in 1..Len(token) : isSpace(token[p]) = isSpace(token[q])

TokensOf(input) ==
  LET t == tokenize(input)
  IN  /\ join(t) = input
      /\ \A k \in 1..Len(t) : t[k] # <<>> /\ uniform(t[k])
      /\ \A k \in 1..Len(t) - 1 : isSpace(t[k][1]) # isSpace(t[k + 1][1])
      /\ input = <<>> => t = <<>>

\* C18: for every input string, the tokens of tokenize concatenated in order
\* are the input, every token is non-empty and all whitespace or all
\* non-whitespace, adjacent tokens are of opposite kinds, and the empty string
\* has no tokens.
C18_Tokenizer ==
  lastEvent.op = "mount" => TokensOf(resolver.before) /\ TokensOf(resolver.after)

\* A tokenized input with a whitespace token and a word token of two
\* characters each, next to an empty input.
C18_Witness ==
  /\ lastEvent.op = "mount"
  /\ resolver.after = <<>>
  /\ LET t == tokenize(resolver.before)
     IN  /\ \E k \in 1..Len(t) : Len(t[k]) >= 2 /\ isSpace(t[k][1])
         /\ \E k \in 1..Len(t) : Len(t[k]) >= 2 /\ ~isSpace(t[k][1])

changeOps(ops) == {ops[idx] : idx \in changeIdxs(ops)}

\* Number of removed segments directly followed by an added segment.
pairedRuns(segs) ==
  Cardinality({k \in 1..Len(segs) - 1 :
                 segs[k].type = "removed" /\ segs[k + 1].type = "added"})

\* C19: if exactly one of before and after is empty, the operation list is
\* one change-op, empty on the side of the empty input and the whole other
\* input on the other side; and every removed segment not followed by an
\* added one, and every added segment not preceded by a removed one, gives
\* one change-op whose other side is empty.
C19_OneSidedChange ==
  LET segs == diffWords(resolver.before, resolver.after)
      ops  == resolver.ops
  IN  lastEvent.op = "mount" =>
      /\ ((resolver.before = <<>>) # (resolver.after = <<>>))
           => ops = <<[type |-> "change", before |-> resolver.before,
                       after |-> resolver.after]>>
      /\ \A k \in 1..Len(segs) :
           /\ (/\ segs[k].type = "removed"
               /\ k = Len(segs) \/ segs[k + 1].type # "added")
              => [type |-> "change", before |-> segs[k].value, after |-> <<>>]
                   \in changeOps(ops)
           /\ (/\ segs[k].type = "added"
               /\ k = 1 \/ segs[k - 1].type # "removed")
              => [type |-> "change", before |-> <<>>, after |-> segs[k].value]
                   \in changeOps(ops)
      /\ Cardinality(changeIdxs(ops))
           = Cardinality({k \in 1..Len(segs) : segs[k].type # "equal"})
             - pairedRuns(segs)

\* An empty before against an after of several tokens.
C19_Witness ==
  /\ lastEvent.op = "mount"
  /\ resolver.before = <<>>
  /\ Len(tokenize(resolver.after)) >= 3
  /\ Len(resolver.ops) = 1

\* C20 as stated: for identical inputs before = after = x, for every string
\* x, the operation list is a single equal-op of value x.
C20_Original ==
  resolver.before = resolver.after
  => resolver.ops = <<[type |-> "equal", value |-> resolver.before]>>

\* C20: for identical inputs before = after = x the operation list has no
\* change-op; it is a single equal-op of value x when x is not empty, and the
\* empty list when x is the empty string.
C20_IdenticalInputs ==
  resolver.before = resolver.after
  => /\ changeIdxs(resolver.ops) = {}
     /\ resolver.ops = IF resolver.before = <<>> THEN <<>>
                       ELSE <<[type |-> "equal", value |-> resolver.before]>>

\* Identical inputs of four tokens or more, folded into one equal-op.
C20_Witness ==
  /\ lastEvent.op = "mount"
  /\ resolver.before = resolver.after
  /\ Len(tokenize(resolver.before)) >= 4
  /\ Len(resolver.ops) = 1

endsWith(text, suffix) ==
  /\ Len(suffix) <= Len(text)
  /\ SubSeq(text, Len(text) - Len(suffix) + 1, Len(text)) = suffix

\* C21: for every change-op, the trailing whitespace of its after text is
\* contributed to the merged text whatever the op's decision is (accept,
\* decline or pending), and only the rest of after depends on the decision:
\* the op contributes the after text without its trailing whitespace when
\* accepted and its before text otherwise, followed in both cases by that
\* trailing whitespace.
C21_TrailingPassThrough ==
  lastEvent.op = "onChange" =>
    /\ \A idx \in changeIdxs(resolver.ops) :
         endsWith(mergePiece(resolver.ops[idx], idx, resolver.decisions),
                  trailing(resolver.ops[idx].after))
    /\ lastEvent.merged =
         join([idx \in 1..Len(resolver.ops) |->
                 LET op == resolver.ops[idx]
                 IN  IF op.type = "equal" THEN op.value
                     ELSE (IF resolver.decisions[idx] = "accept"
                           THEN addCore(op.after) ELSE op.before)
                          \o trailing(op.after)])

\* The status the report rep resolves its field to.
reported(rep, pend) ==
  IF rep.allResolved
  THEN (IF rep.merged = pend[rep.field] THEN "applied" ELSE "dismissed")
  ELSE "pending"

\* C22: when two or three fields report within the same update cycle, in
\* either order, the status map after the cycle holds the status each report
\* resolves its field to, leaves the other fields' statuses as they were, and
\* the proposal is cleared iff that map has no pending field.
C22_NoLostUpdate ==
  [][lastEvent'.op = "batch"
     => LET reps == lastEvent'.reports
        IN  /\ \A k \in DOMAIN reps :
                 status'[reps[k].field] = reported(reps[k], pendingChanges)
            /\ \A f \in Fields :
                 (\A k \in DOMAIN reps : reps[k].field # f) => status'[f] = status[f]
            /\ (pendingChanges' = NULL) <=> ~anyPending(status')]_vars

\* Two fields have resolved in one cycle, one applied and one dismissed, the
\* third field was resolved before, and the proposal is cleared.
C22_Witness ==
  /\ lastEvent.op = "batch"
  /\ Len(lastEvent.reports) = 2
  /\ \A k \in 1..2 : lastEvent.reports[k].allResolved
  /\ \A k \in 1..2 : lastEvent.was[lastEvent.reports[k].field] = "pending"
  /\ {status[lastEvent.reports[k].field] : k \in 1..2} = {"applied", "dismissed"}
  /\ pendingChanges = NULL

\* C23: for all inputs, no two adjacent segments of diffWords have the same
\* type and an added segment is never directly followed by a removed one;
\* in the operation list no two change-ops are adjacent and no two equal-ops
\* are adjacent.
C23_Alternation ==
  LET segs == diffWords(resolver.before, resolver.after)
      ops  == resolver.ops
  IN  lastEvent.op = "mount" =>
      /\ \A k \in 1..Len(segs) - 1 :
           /\ segs[k].type # segs[k + 1].type
           /\ ~(segs[k].type = "added" /\ segs[k + 1].type = "removed")
      /\ \A k \in 1..Len(ops) - 1 : ops[k].type # ops[k + 1].type

\* A removed segment directly followed by an added one, between two equal
\* segments, grouped into the middle op of three.
C23_Witness ==
  LET segs == diffWords(resolver.before, resolver.after)
  IN  /\ lastEvent.op = "mount"
      /\ Len(segs) = 4
      /\ segs[2].type = "removed" /\ segs[3].type = "added"
      /\ Len(resolver.ops) = 3
      /\ resolver.ops[2].type = "change"

\* C24: the decisions of a resolver change only by setDecision, and
\* setDecision(idx, decision) changes exactly one entry: afterwards the
\* decision at idx is the given one, the decision of every other change-op is
\* what it was, and the operation list and its inputs are unchanged.
C24_DecideFrame ==
  [][(resolver'.decisions # resolver.decisions \/ lastEvent'.op = "onChange")
     => /\ lastEvent'.op = "onChange"
        /\ lastEvent'.idx \in changeIdxs(resolver.ops)
        /\ DOMAIN resolver'.decisions = DOMAIN resolver.decisions
        /\ resolver'.decisions[lastEvent'.idx] = lastEvent'.decision
        /\ \A k \in DOMAIN resolver.decisions \ {lastEvent'.idx} :
             resolver'.decisions[k] = resolver.decisions[k]
        /\ resolver'.ops = resolver.ops
        /\ resolver'.before = resolver.before
        /\ resolver'.after = resolver.after]_vars

\* A decline has just been recorded next to an earlier accept, with a third
\* change-op still pending.
C24_Witness ==
  /\ lastEvent.op = "onChange"
  /\ lastEvent.decision = "decline"
  /\ decided(resolver, "decline") = {lastEvent.idx}
  /\ decided(resolver, "accept") # {}
  /\ decided(resolver, "pending") # {}

\* C25: for all inputs, every change-op of groupOps has a before text that
\* differs from its after text (so they are not both empty), and an accept of
\* a pending change-op gives a merged text that differs from the merged text
\* with that op left pending.
C25_NoNoOpChange ==
  /\ \A idx \in changeIdxs(resolver.ops) :
       resolver.ops[idx].before # resolver.ops[idx].after
  /\ (lastEvent.op = "onChange" /\ lastEvent.decision = "accept")
     => lastEvent.merged #
          commit(resolver.ops,
                 [resolver.decisions EXCEPT ![lastEvent.idx] = "pending"]).merged

\* An accepted change-op that replaces a word by a longer one, next to a
\* one-sided change-op.
C25_Witness ==
  /\ lastEvent.op = "onChange"
  /\ lastEvent.decision = "accept"
  /\ LET op == resolver.ops[lastEvent.idx]
     IN  op.before # <<>> /\ op.after # <<>> /\ Len(op.after) > Len(op.before)
  /\ \E idx \in changeIdxs(resolver.ops) :
       resolver.ops[idx].before = <<>> \/ resolver.ops[idx].after = <<>>

\* C26: in every reachable state, a field that is pending while a proposal
\* is held has a current value that differs from its proposed value, and the
\* resolver it shows has at least one change-op whose decision is pending
\* (whose buttons are shown).
C26_NoStuckPending ==
  \A f \in Fields :
    (pendingChanges # NULL /\ status[f] = "pending")
    => /\ currentValue[f] # pendingChanges[f]
       /\ fieldResolver[f] # Unmounted
       /\ \E idx \in opIdxs(fieldResolver[f]) :
            /\ hasButtons(fieldResolver[f], idx)
            /\ fieldResolver[f].decisions[idx] = "pending"

\* Just after an accept that left its field pending: the list regenerated
\* from the merged value still offers a change-op, while another field was
\* dismissed earlier.
C26_Witness ==
  /\ lastEvent.op = "onChange"
  /\ lastEvent.decision = "accept"
  /\ ~lastEvent.allResolved
  /\ pendingChanges # NULL
  /\ status[lastEvent.field] = "pending"
  /\ currentValue[lastEvent.field] = lastEvent.merged
  /\ decided(fieldResolver[lastEvent.field], "pending") # {}
  /\ \E g \in Fields : status[g] = "dismissed"

\* C27: an accept that leaves another change-op of its field pending changes
\* the field's current value, and the field then shows the list built from
\* (merged value, proposed value) with every decision pending, whatever was
\* declined before; a decline leaves the current value as it was and, when it
\* leaves the field pending, the operation list and every other decision of
\* the field as they were.
C27_AcceptRegenerates ==
  [][lastEvent'.op = "onChange"
     => LET f    == lastEvent'.field
            cur  == values(recipient', subject', body')
        IN  /\ (lastEvent'.decision = "accept" /\ ~lastEvent'.allResolved)
                => /\ cur[f] # currentValue[f]
                   /\ cur[f] = lastEvent'.merged
                   /\ cur[f] # pendingChanges[f]
                   /\ fieldResolver'[f] # Unmounted
                   /\ freshFor(fieldResolver'[f], lastEvent'.merged, pendingChanges[f])
                   /\ changeIdxs(fieldResolver'[f].ops) # {}
            /\ lastEvent'.decision = "decline"
                => /\ cur[f] = currentValue[f]
                   /\ ~lastEvent'.allResolved
                      => /\ fieldResolver'[f] # Unmounted
                         /\ fieldResolver'[f].ops = fieldResolver[f].ops
                         /\ fieldResolver'[f].decisions =
                              [fieldResolver[f].decisions
                                 EXCEPT ![lastEvent'.idx] = "decline"]]_vars

\* An accept made after a decline in the same field, with a third change-op
\* still pending: the field shows a new list whose decisions are all pending.
C27_Witness ==
  /\ lastEvent.op = "onChange"
  /\ lastEvent.decision = "accept"
  /\ lastEvent.declined >= 1
  /\ ~lastEvent.allResolved
  /\ fieldResolver[lastEvent.field] # Unmounted
  /\ Cardinality(decided(fieldResolver[lastEvent.field], "pending")) >= 2

\* Number of tokens by which x differs from y: the tokens of either text
\* outside a longest common subsequence of their token lists.
tokenDistance(x, y) ==
  LET a == tokenize(x)
      b == tokenize(y)
  IN  Len(a) + Len(b) - 2 * lcsTable(a, b)[0, 0]

\* The field shows a resolver in which nothing has been declined.
acceptingOnly(f) ==
  /\ showsResolver(pendingChanges, status, f)
  /\ fieldResolver[f] # Unmounted
  /\ decided(fieldResolver[f], "decline") = {}

\* A decline in field f, a new proposal or Decline All.
interrupted(f) ==
  \/ lastEvent.op \in {"deliver", "declineAll"}
  \/ lastEvent.op = "onChange" /\ lastEvent.field = f /\ lastEvent.decision = "decline"

\* C28: every accept in a field in which nothing was declined strictly
\* reduces the number of tokens by which the field's current value differs
\* from its proposed value; and a pending field in which nothing is declined,
\* whose accept buttons the user keeps clicking, becomes applied with its
\* current value equal to the proposed value, unless a decline in the field,
\* a new proposal or Decline All comes first.
C28_AcceptProgress ==
  /\ [][(lastEvent'.op = "onChange" /\ lastEvent'.decision = "accept"
           /\ lastEvent'.declined = 0)
        => LET f == lastEvent'.field
           IN  tokenDistance(values(recipient', subject', body')[f], pendingChanges[f])
                 < tokenDistance(currentValue[f], pendingChanges[f])]_vars
  /\ \A f \in Fields :
       acceptingOnly(f) ~> \/ status[f] = "applied" /\ lastEvent.op \in {"onChange", "acceptAll"}
                           \/ interrupted(f)

\* The last of several accepts in the body has made it equal to the proposed
\* long text, and the field is applied.
C28_Witness ==
  /\ lastEvent.op = "onChange"
  /\ lastEvent.field = "text"
  /\ lastEvent.decision = "accept"
  /\ lastEvent.declined = 0
  /\ lastEvent.allResolved
  /\ status.text = "applied"
  /\ body = LongText("b", NumWords)
  /\ lastEvent.idx > 1

\* C29: a delivered proposal becomes the held one whatever was held or
\* resolved before, the field values stay as they are, and every field's
\* status is pending if its current value (partly accepted text included)
\* differs from the new proposed value and unchanged otherwise, whatever the
\* status was; a pending field shows a resolver on (current value, new
\* proposed value); a delivery of null changes nothing.
C29_Supersede ==
  [][/\ lastEvent'.op = "deliver"
        => /\ pendingChanges' = lastEvent'.incoming
           /\ values(recipient', subject', body') = currentValue
           /\ \A f \in Fields :
                /\ status'[f] = IF currentValue[f] # lastEvent'.incoming[f]
                                THEN "pending" ELSE "unchanged"
                /\ status'[f] = "pending"
                   => /\ fieldResolver'[f] # Unmounted
                      /\ fieldResolver'[f].before = currentValue[f]
                      /\ fieldResolver'[f].after = lastEvent'.incoming[f]
     /\ lastEvent'.op = "deliverNull"
        => /\ pendingChanges' = pendingChanges
           /\ status' = status
           /\ values(recipient', subject', body') = currentValue
           /\ fieldResolver' = fieldResolver]_vars

\* A proposal has just arrived while the body holds partly accepted text of
\* an earlier one: the body is pending against the new text it differs from
\* in one word only.
C29_Witness ==
  /\ lastEvent.op = "deliver"
  /\ body \notin LongTexts.text \cup {<<>>}
  /\ status.text = "pending"
  /\ pendingChanges = lastEvent.incoming
  /\ Cardinality(changeIdxs(fieldResolver.text.ops)) = 1
  /\ status.email = "unchanged"

\* Status changes a file may go through.
statusStep(from, to) ==
  \/ from = to
  \/ from = "pending" /\ to = "uploading"
  \/ from = "uploading" /\ to \in {"success", "error"}

\* C30: for every interleaving of addFiles, removeAt and upload completions,
\* the status a file of the list carries was written by that file's own
\* upload, and from one state to the next the status of a file only moves
\* pending -> uploading -> success or error.
C30_UploadOnOwnFile ==
  [][\A k \in 1..Len(files') :
       /\ files'[k].by \in {0, files'[k].id}
       /\ \A j \in 1..Len(files) :
            files[j].id = files'[k].id
            => statusStep(files[j].status, files'[k].status)]_vars

====
